---- MODULE Spec2Model ----
(***************************************************************************)
(* Model of the table migration engine of Snowflake_Migration              *)
(* (src/migration-module.py): migrate_table, get_tables and                *)
(* migrate_all_tables, test_connection, and of the dashboard's test        *)
(* buttons and migration summary (src/streamlit-app.py).                   *)
(*                                                                         *)
(* The specifications share the variables and the steps of the functions:  *)
(*   Spec        one run of migrate_all_tables (thread pool of max_workers *)
(*               workers, one migrate_table call per listed table);        *)
(*   SpecLive    such runs under the fairness of their scheduling;         *)
(*   SpecTable   one direct call of migrate_table, as the dashboard makes  *)
(*               it (src/streamlit-app.py:180), with larger tables;        *)
(*   SpecTwice   two such calls in succession for the same table;          *)
(*   SpecDDL     one direct call, over varied table definition texts;      *)
(*   SpecTest    the Test Source and Test Target buttons;                  *)
(*   SpecSummary the migration summary over sequences of results;          *)
(*   SpecBatch   one direct call with any batch_size from 0, run to its    *)
(*               return;                                                   *)
(*   SpecDash    the dashboard's Start Migration button, which calls       *)
(*               migrate_table for each selected table in turn;            *)
(*   SpecWrites  one direct call while other sessions insert into and      *)
(*               delete from the source table between its extract queries. *)
(*                                                                         *)
(* Every database call (connect, execute, executemany, commit) is a step   *)
(* of its own that the environment lets succeed or fail.  The target       *)
(* connection is transactional: executemany leaves its rows pending until  *)
(* commit, closing the connection discards what is pending; DDL statements *)
(* take effect when they execute.  cursor() and close() do not fail.       *)
(***************************************************************************)
EXTENDS Integers, Sequences, FiniteSets, TLC

\* ---------------------------------------------------------------- bounds
MaxTables == 2       \* tables listed by get_tables in a migrate_all_tables run
MaxWorkers == 2      \* largest max_workers tried
MaxPoolRows == 1     \* rows per source table in a migrate_all_tables run
MaxRows == 5         \* rows of the source table in a direct migrate_table call
MaxBatch == 3        \* largest batch_size tried in a direct call
MaxOldRows == 1      \* rows of a table that already exists at the target
MaxCols == 2         \* columns of the source table in a direct call
MaxPresses == 3      \* presses of the dashboard's test buttons
MaxDDL == 6          \* characters of a table definition whose text is varied
MaxResults == 2      \* results summarised
MaxSumRows == 2      \* largest rows_migrated of a summarised result
MaxTime == 1         \* largest time_taken of a summarised result, in 1/100 s
MaxWrites == 2       \* writes of other sessions to the source table during a call
MaxWriteRows == 4    \* source rows at the start of a call other sessions write into
MaxWriteBatch == 2   \* largest batch_size of such a call

Tables == 1..MaxTables

\* value of result["error"] when no exception was caught (Python's None)
NoError == "None"

\* the database calls of migrate_table, in program order
Steps == {"connect_source", "connect_target", "get_ddl", "drop", "create",
          "commit_ddl", "get_columns", "extract", "insert", "commit"}

\* no exception is on its way out of get_tables
NoException == <<>>

\* id of a row found in a table that exists at the target before the run
OldRow == 0

\* definition of a table that exists at the target before the run
OldDDL == <<"o">>

VARIABLES
    \* inputs and database state
    tables,        \* the tables of the source schema as its catalog lists them
                   \* (the list get_tables returns to migrate_all_tables)
    max_workers,   \* argument max_workers
    batch_size,    \* argument batch_size
    source,        \* source[t]: rows of source table t, in scan order
    target,        \* target[t]: [exists, rows] committed state of target table t
    pending,       \* pending[t]: rows inserted on t's target connection, not committed
    source_params, \* argument source_params: [database, schema]
    target_params, \* argument target_params: [database, schema]
    source_ddl,    \* source_ddl[t]: the text GET_DDL returns for source table t
    source_cols,   \* source_cols[t]: the columns of source table t
    log,           \* what the engine logged or signalled besides its results
    \* get_tables
    list_pc,       \* position of the get_tables call
    list_conn,     \* its local conn: "unset" | "open" | "closed"
    listed,        \* its local tables
    list_error,    \* the exception it raises, or NoException
    list_raisedAt, \* observation only: its database call that raised, or NoError
    \* test_connection
    test_pc,       \* position of the test_connection call
    test_conn,     \* its local conn: "unset" | "open" | "closed"
    test_result,   \* the value it returned: "none" | "True" | "False"
    test_escaped,  \* an exception left test_connection
    test_raisedAt, \* observation only: its database call that raised, or NoError
    \* the dashboard's Test Source and Test Target buttons
    handler_pc,    \* position of the button handler
    button,        \* the button pressed last: "none" | "source" | "target"
    presses,       \* number of presses so far
    source_tables, \* st.session_state.source_tables
    notice,        \* the message shown last
    \* the dashboard's Start Migration button
    dash_pc,       \* position of the handler
    selected,      \* selected_tables
    dash_i,        \* number of iterations of its loop that were begun
    in_progress,   \* st.session_state.migration_in_progress
    migration_results, \* st.session_state.migration_results (None shown as <<>>)
    \* other sessions writing to the source table
    writes,        \* number of their inserts and deletes so far
    fetched,       \* observation only: the source as each extract query found it
    \* observation only: the target table as the first of two calls left it
    first_run,
    \* the migration summary of the dashboard
    summary_pc,    \* "idle" | "ready" (results complete) | "shown"
    summary,       \* the figures of the summary
    \* migrate_all_tables
    pcMain,        \* position of the calling thread
    submitted,     \* number of executor.submit calls made
    collected,     \* number of futures the result loop has gone through
    results,       \* the list results
    \* migrate_table, one call per table
    pc,            \* pc[t]: position of the call for table t
    source_conn,   \* "unset" | "open" | "closed"
    target_conn,   \* "unset" | "open" | "closed"
    offset,        \* local offset
    total_rows,    \* local total_rows
    rows,          \* local rows: the batch last fetched
    result,        \* the dict result
    create_stmt,   \* local create_table_statement
    columns,       \* local columns
    \* observation only
    placed,        \* placed[t]: <<c, d>> when an insert of t's call stored in
                   \* target column c the values read from source column d
    raisedAt,      \* raisedAt[t]: the database call of t that raised, or NoError
    rounds,        \* rounds[t]: sizes of the batches committed by t's call
    extracts,      \* extracts[t]: offsets of the extract queries t issued
    doneOrder      \* tables in the order their calls returned

vars == <<tables, max_workers, batch_size, source, target, pending,
          source_params, target_params, source_ddl, source_cols, log,
          list_pc, list_conn, listed, list_error, list_raisedAt,
          test_pc, test_conn, test_result, test_escaped, test_raisedAt,
          handler_pc, button, presses, source_tables, notice,
          summary_pc, summary, first_run,
          dash_pc, selected, dash_i, in_progress, migration_results,
          writes, fetched,
          pcMain, submitted, collected, results,
          pc, source_conn, target_conn, offset, total_rows, rows, result,
          create_stmt, columns, placed,
          raisedAt, rounds, extracts, doneOrder>>

dbVars == <<source, target, pending>>
mainVars == <<pcMain, submitted, collected, results>>
inputVars == <<tables, max_workers, batch_size, source_params, target_params,
               source_ddl, source_cols>>
listVars == <<list_pc, list_conn, listed, list_error, list_raisedAt>>
testVars == <<test_pc, test_conn, test_result, test_escaped, test_raisedAt>>
buttonVars == <<handler_pc, button, presses, source_tables, notice>>
summaryVars == <<summary_pc, summary>>
dashVars == <<dash_pc, selected, dash_i, in_progress, migration_results>>
writeVars == <<writes, fetched>>
auxVars == <<log, listVars, testVars, buttonVars, summaryVars, first_run, dashVars,
             writeVars>>
shapeVars == <<create_stmt, columns, placed>>

\* ---------------------------------------------------------------- helpers
Min(a, b) == IF a < b THEN a ELSE b

Range(s) == {s[i] : i \in 1..Len(s)}

\* <<1, 2, ..., n>>
Iota(n) == [i \in 1..n |-> i]

\* rows a SELECT ... LIMIT lim OFFSET off returns from table contents tbl
Limit(tbl, lim, off) ==
    IF off >= Len(tbl) \/ lim <= 0
    THEN <<>>
    ELSE SubSeq(tbl, off + 1, Min(off + lim, Len(tbl)))

\* texts are sequences of characters
Dot == <<".">>

\* f"{params['database']}.{params['schema']}"
Qualifier(params) == params.database \o Dot \o params.schema

\* s.startswith(old)
StartsWith(s, old) == Len(old) <= Len(s) /\ SubSeq(s, 1, Len(old)) = old

\* faulty variant of StrReplace: s.replace(old, new, 1)
RECURSIVE StrReplace_First(_, _, _)
StrReplace_First(s, old, new) ==
    IF Len(s) < Len(old) THEN s
    ELSE IF StartsWith(s, old)
         THEN new \o SubSeq(s, Len(old) + 1, Len(s))
         ELSE <<Head(s)>> \o StrReplace_First(Tail(s), old, new)

\* s.replace(old, new) for a non-empty old: the occurrences of old are found
\* from the left, each search resuming after the occurrence replaced
RECURSIVE StrReplace(_, _, _)
StrReplace(s, old, new) ==
    IF Len(s) < Len(old) THEN s
    ELSE IF StartsWith(s, old)
         THEN new \o StrReplace(SubSeq(s, Len(old) + 1, Len(s)), old, new)
         ELSE <<Head(s)>> \o StrReplace(Tail(s), old, new)

\* the orders in which a catalog query without ORDER BY may return n columns
Perms(n) == {p \in [1..n -> 1..n] : \A i, j \in 1..n : p[i] = p[j] => i = j}

\* the summary before it is computed
NoSummary == [success_count |-> 0, failed |-> 0, total_rows |-> 0, total_time |-> 0]

\* faulty variant of InitResult: "success": True until an exception is seen
InitResult_Optimistic(t) ==
    [table |-> t, success |-> TRUE, rows_migrated |-> 0, error |-> NoError]

\* the dict result as migrate_table creates it
InitResult(t) ==
    [table |-> t, success |-> FALSE, rows_migrated |-> 0, error |-> NoError]

\* calls of migrate_table that have started and not returned
Active == {t \in Tables : pc[t] \in Steps \cup {"finally"}}

\* faulty variant of Finished: future.running() or future.done()
Finished_Started(t) == pc[t] \notin {"unsubmitted", "queued"}

\* future.done(): the call returned or raised
Finished(t) == pc[t] \in {"done", "raised"}

\* ---------------------------------------------------------------- initial states
\* a table at the target before the run: absent, or present with old rows
NoTable == [exists |-> FALSE, rows |-> <<>>, ddl |-> <<>>]

OldTargets ==
    {NoTable} \cup
    {[exists |-> TRUE, rows |-> [i \in 1..k |-> OldRow], ddl |-> OldDDL] :
        k \in 0..MaxOldRows}

\* the connection parameters and the table definitions of the runs whose
\* texts are not varied: GET_DDL names the table with its qualifier
SourceParams == [database |-> <<"a">>, schema |-> <<"a">>]
TargetParams == [database |-> <<"b">>, schema |-> <<"a">>]
QualifiedDDL == Qualifier(SourceParams) \o Dot \o <<"t">>

FixedTexts ==
    /\ source_params = SourceParams
    /\ target_params = TargetParams
    /\ source_ddl = [t \in Tables |-> QualifiedDDL]

TaskInit ==
    /\ pending = [t \in Tables |-> <<>>]
    /\ source_conn = [t \in Tables |-> "unset"]
    /\ target_conn = [t \in Tables |-> "unset"]
    /\ offset = [t \in Tables |-> 0]
    /\ total_rows = [t \in Tables |-> 0]
    /\ rows = [t \in Tables |-> <<>>]
    /\ result = [t \in Tables |-> InitResult(t)]
    /\ create_stmt = [t \in Tables |-> <<>>]
    /\ columns = [t \in Tables |-> <<>>]
    /\ placed = [t \in Tables |-> {}]
    /\ log = <<>>
    /\ list_conn = "unset"
    /\ listed = <<>>
    /\ list_error = NoException
    /\ list_raisedAt = NoError
    /\ test_pc = "idle"
    /\ test_conn = "unset"
    /\ test_result = "none"
    /\ test_escaped = FALSE
    /\ test_raisedAt = NoError
    /\ handler_pc = "idle"
    /\ button = "none"
    /\ presses = 0
    /\ notice = "none"
    /\ summary = NoSummary
    /\ first_run = NoTable
    /\ writes = 0
    /\ fetched = [t \in Tables |-> <<>>]
    /\ dash_pc = "idle"
    /\ selected = <<>>
    /\ dash_i = 0
    /\ in_progress = FALSE
    /\ migration_results = <<>>
    /\ raisedAt = [t \in Tables |-> NoError]
    /\ rounds = [t \in Tables |-> <<>>]
    /\ extracts = [t \in Tables |-> <<>>]
    /\ doneOrder = <<>>
    /\ submitted = 0
    /\ collected = 0

\* migrate_all_tables(source_params, target_params, batch_size, max_workers):
\* the catalog lists n tables of r rows each; the target schema is empty or
\* holds an old copy of every table; one batch holds a whole table (the
\* batch sizes are varied in InitTable)
Init ==
    /\ \E n \in 0..MaxTables : tables = Iota(n)
    /\ max_workers \in 1..MaxWorkers
    /\ batch_size = MaxPoolRows
    /\ \E r \in 0..MaxPoolRows :
         source = [t \in Tables |-> IF t \in Range(tables) THEN Iota(r) ELSE <<>>]
    /\ \E old \in {o \in OldTargets : o.exists => Len(o.rows) = MaxOldRows} :
         target = [t \in Tables |-> IF t \in Range(tables)
                                     THEN old
                                     ELSE NoTable]
    /\ FixedTexts
    /\ source_cols = [t \in Tables |-> Iota(1)]
    /\ pcMain = "get_tables"
    /\ results = <<>>
    /\ summary_pc = "idle"
    /\ source_tables = <<>>
    /\ list_pc = "connect"
    /\ pc = [t \in Tables |-> "unsubmitted"]
    /\ TaskInit

\* the runs of Init into an empty target schema in which the first table
\* holds one row and the others none
InitLive ==
    /\ \E n \in 0..MaxTables : tables = Iota(n)
    /\ max_workers \in 1..MaxWorkers
    /\ batch_size = MaxPoolRows
    /\ source = [t \in Tables |-> IF t = 1 /\ t \in Range(tables) THEN Iota(1) ELSE <<>>]
    /\ target = [t \in Tables |-> NoTable]
    /\ FixedTexts
    /\ source_cols = [t \in Tables |-> Iota(1)]
    /\ pcMain = "get_tables"
    /\ results = <<>>
    /\ summary_pc = "idle"
    /\ source_tables = <<>>
    /\ list_pc = "connect"
    /\ pc = [t \in Tables |-> "unsubmitted"]
    /\ TaskInit

\* migrate_table(table, source_params, target_params, batch_size) called
\* directly for table 1
InitTable ==
    /\ tables = <<1>>
    /\ max_workers = 1
    /\ batch_size \in 1..MaxBatch
    /\ \E r \in 0..MaxRows :
         source = [t \in Tables |-> IF t = 1 THEN Iota(r) ELSE <<>>]
    /\ \E old \in OldTargets :
         target = [t \in Tables |->
                     IF t = 1 THEN old ELSE NoTable]
    /\ FixedTexts
    /\ \E n \in 1..MaxCols : source_cols = [t \in Tables |-> Iota(n)]
    /\ pcMain = "direct"
    /\ results = <<>>
    /\ summary_pc = "idle"
    /\ source_tables = <<>>
    /\ list_pc = "idle"
    /\ pc = [t \in Tables |-> "unsubmitted"]
    /\ TaskInit

\* ---------------------------------------------------------------- migrate_table
taskVars == <<pc, source_conn, target_conn, offset, total_rows, rows, result,
              shapeVars, raisedAt, rounds, extracts, doneOrder>>

\* faulty variant of Except: `except Exception: pass`, the text is not kept
Except_Lost(t, e) ==
    /\ result' = result
    /\ pc' = [pc EXCEPT ![t] = "finally"]

\* faulty variant of Except: the batch of the failed round is counted
Except_CountsFailedRound(t, e) ==
    /\ result' = [result EXCEPT ![t].error = e,
                                ![t].rows_migrated = @ + Len(rows[t])]
    /\ pc' = [pc EXCEPT ![t] = "finally"]

\* faulty variant of Except: the body of the try block is entered again
Except_Retry(t, e) ==
    /\ result' = [result EXCEPT ![t].error = e]
    /\ pc' = [pc EXCEPT ![t] = "connect_source"]

\* except Exception as e: result["error"] = str(e); control goes to finally
Except(t, e) ==
    /\ result' = [result EXCEPT ![t].error = e]
    /\ pc' = [pc EXCEPT ![t] = "finally"]

\* the database call `step` of table t's migration raises
Raise(t, step) ==
    /\ raisedAt' = [raisedAt EXCEPT ![t] = step]
    /\ Except(t, step)

\* the database call succeeds and control goes on to `next`
Goto(t, next) ==
    /\ pc' = [pc EXCEPT ![t] = next]
    /\ UNCHANGED <<result, raisedAt>>

\* start_time, result = {...} and the entry of the try block
Enter(t) ==
    /\ pc' = [pc EXCEPT ![t] = "connect_source"]
    /\ result' = [result EXCEPT ![t] = InitResult(t)]

\* source_conn = connect(**source_params); source_cursor = source_conn.cursor()
ConnectSource(t) ==
    /\ pc[t] = "connect_source"
    /\ \/ /\ source_conn' = [source_conn EXCEPT ![t] = "open"]
          /\ Goto(t, "connect_target")
       \/ /\ Raise(t, "connect_source")
          /\ UNCHANGED source_conn
    /\ UNCHANGED <<inputVars, auxVars, shapeVars, dbVars, mainVars, target_conn, offset, total_rows,
                   rows, rounds, extracts, doneOrder>>

\* target_conn = connect(**target_params); target_cursor = target_conn.cursor()
ConnectTarget(t) ==
    /\ pc[t] = "connect_target"
    /\ \/ /\ target_conn' = [target_conn EXCEPT ![t] = "open"]
          /\ Goto(t, "get_ddl")
       \/ /\ Raise(t, "connect_target")
          /\ UNCHANGED target_conn
    /\ UNCHANGED <<inputVars, auxVars, shapeVars, dbVars, mainVars, source_conn, offset, total_rows,
                   rows, rounds, extracts, doneOrder>>

\* faulty variant of GetDDL: the DROP statement placed before the fetch of
\* the definition
GetDDL_DropFirst(t) ==
    /\ pc[t] = "get_ddl"
    /\ target' = [target EXCEPT ![t] = NoTable]
    /\ \/ /\ create_stmt' = [create_stmt EXCEPT ![t] =
                   StrReplace(source_ddl[t], Qualifier(source_params),
                              Qualifier(target_params))]
          /\ Goto(t, "drop")
       \/ /\ Raise(t, "get_ddl")
          /\ UNCHANGED create_stmt
    /\ UNCHANGED <<inputVars, auxVars, columns, placed, source, pending, mainVars,
                   source_conn, target_conn, offset, total_rows, rows, rounds,
                   extracts, doneOrder>>

\* SELECT GET_DDL(...), fetchone()[0] and the replace of the qualifier
GetDDL(t) ==
    /\ pc[t] = "get_ddl"
    /\ \/ /\ create_stmt' = [create_stmt EXCEPT ![t] =
                   StrReplace(source_ddl[t], Qualifier(source_params),
                              Qualifier(target_params))]
          /\ Goto(t, "drop")
       \/ /\ Raise(t, "get_ddl")
          /\ UNCHANGED create_stmt
    /\ UNCHANGED <<inputVars, auxVars, columns, placed, dbVars, mainVars, source_conn, target_conn, offset,
                   total_rows, rows, rounds, extracts, doneOrder>>

\* faulty variant of DropTable: the DROP statement is missing and the table
\* is left to the "create or replace" of the next statement
DropTable_Skipped(t) ==
    /\ pc[t] = "drop"
    /\ Goto(t, "create")
    /\ UNCHANGED <<inputVars, auxVars, shapeVars, dbVars, mainVars, source_conn,
                   target_conn, offset, total_rows, rows, rounds, extracts, doneOrder>>

\* DROP TABLE IF EXISTS <target>.<table>
DropTable(t) ==
    /\ pc[t] = "drop"
    /\ \/ /\ target' = [target EXCEPT ![t] = NoTable]
          /\ Goto(t, "create")
       \/ /\ Raise(t, "drop")
          /\ UNCHANGED target
    /\ UNCHANGED <<inputVars, auxVars, shapeVars, source, pending, mainVars, source_conn, target_conn,
                   offset, total_rows, rows, rounds, extracts, doneOrder>>

\* target_cursor.execute(create_table_statement): GET_DDL's statement is
\* "create or replace TABLE ...", so the table exists and is empty afterwards
CreateTable(t) ==
    /\ pc[t] = "create"
    /\ \/ /\ target' = [target EXCEPT ![t] = [exists |-> TRUE, rows |-> <<>>,
                                            ddl |-> create_stmt[t]]]
          /\ Goto(t, "commit_ddl")
       \/ /\ Raise(t, "create")
          /\ UNCHANGED target
    /\ UNCHANGED <<inputVars, auxVars, shapeVars, source, pending, mainVars, source_conn, target_conn,
                   offset, total_rows, rows, rounds, extracts, doneOrder>>

\* target_conn.commit() after the DDL
CommitDDL(t) ==
    /\ pc[t] = "commit_ddl"
    /\ \/ Goto(t, "get_columns")
       \/ Raise(t, "commit_ddl")
    /\ UNCHANGED <<inputVars, auxVars, shapeVars, dbVars, mainVars, source_conn, target_conn, offset,
                   total_rows, rows, rounds, extracts, doneOrder>>

\* SELECT COLUMN_NAME ...; columns, column_list; offset = 0; total_rows = 0
GetColumns(t) ==
    /\ pc[t] = "get_columns"
    /\ \/ /\ Goto(t, "extract")
          /\ \E p \in Perms(Len(source_cols[t])) :
               columns' = [columns EXCEPT ![t] =
                             [i \in 1..Len(source_cols[t]) |-> source_cols[t][p[i]]]]
          /\ offset' = [offset EXCEPT ![t] = 0]
          /\ total_rows' = [total_rows EXCEPT ![t] = 0]
       \/ /\ Raise(t, "get_columns")
          /\ UNCHANGED <<columns, offset, total_rows>>
    /\ UNCHANGED <<inputVars, auxVars, create_stmt, placed, dbVars, mainVars, source_conn, target_conn,
                   rows, rounds, extracts, doneOrder>>

\* faulty variant of NextOffset: offset += len(rows)
NextOffset_Rows(off, bs, n) == off + n

\* faulty variant of NextOffset: the statement offset += batch_size is missing
NextOffset_Stuck(off, bs, n) == off

\* offset += batch_size
NextOffset(off, bs, n) == off + bs

\* faulty variant of NextTotal: total_rows += batch_size
NextTotal_Batch(tot, bs, n) == tot + bs

\* total_rows += len(rows)
NextTotal(tot, bs, n) == tot + n

\* faulty variant of LoopEnds: if len(rows) < batch_size: break
LoopEnds_ShortBatch(got, bs) == Len(got) < bs

\* if not rows: break
LoopEnds(got, bs) == got = <<>>

\* faulty variant of Visible: every extract query of a call reads the table
\* as the call's first extract query found it (one snapshot for the whole call)
Visible_Snapshot(t) == IF fetched[t] = <<>> THEN source[t] ELSE fetched[t][1]

\* the table contents an extract query reads: each execute is a statement of
\* its own on source_conn, no transaction or snapshot spans the loop, so the
\* query reads what the source table holds when it runs
Visible(t) == source[t]

\* source_cursor.execute(SELECT ... LIMIT batch_size OFFSET offset); fetchall();
\* if not rows: break; and after the loop result["success"] = True
Extract(t) ==
    /\ pc[t] = "extract"
    /\ \/ LET got == Limit(Visible(t), batch_size, offset[t]) IN
            /\ rows' = [rows EXCEPT ![t] = got]
            /\ extracts' = [extracts EXCEPT ![t] = Append(@, offset[t])]
            /\ fetched' = [fetched EXCEPT ![t] = Append(@, source[t])]
            /\ raisedAt' = raisedAt
            /\ IF LoopEnds(got, batch_size)
               THEN /\ result' = [result EXCEPT ![t].success = TRUE]
                    /\ pc' = [pc EXCEPT ![t] = "finally"]
               ELSE /\ result' = result
                    /\ pc' = [pc EXCEPT ![t] = "insert"]
       \/ /\ Raise(t, "extract")
          /\ extracts' = [extracts EXCEPT ![t] = Append(@, offset[t])]
          /\ UNCHANGED <<rows, fetched>>
    /\ UNCHANGED <<inputVars, log, listVars, testVars, buttonVars, summaryVars, first_run,
                   dashVars, writes, shapeVars, dbVars, mainVars, source_conn, target_conn,
                   offset, total_rows, rounds, doneOrder>>

\* faulty variant of InsertList: INSERT INTO <table> VALUES (...), the values
\* go to the columns in the order of the table's definition
InsertList_Positional(cols) == Iota(Len(cols))

\* the columns of `SELECT {column_list} FROM ...`
SelectList(cols) == cols

\* the columns of `INSERT INTO ... ({column_list}) VALUES (...)`
InsertList(cols) == cols

\* target_cursor.executemany(insert_query, rows): the batch is one statement,
\* its rows are pending on the target connection until the commit; the i-th
\* value of a fetched row goes to the i-th column of the insert
Insert(t) ==
    /\ pc[t] = "insert"
    /\ \/ /\ target[t].exists
          /\ pending' = [pending EXCEPT ![t] = @ \o rows[t]]
          /\ placed' = [placed EXCEPT ![t] =
                          @ \cup {<<InsertList(columns[t])[i], SelectList(columns[t])[i]>> :
                                     i \in 1..Len(columns[t])}]
          /\ Goto(t, "commit")
       \/ /\ Raise(t, "insert")
          /\ UNCHANGED <<pending, placed>>
    /\ UNCHANGED <<inputVars, auxVars, create_stmt, columns, source, target, mainVars, source_conn, target_conn,
                   offset, total_rows, rows, rounds, extracts, doneOrder>>

\* target_conn.commit(); offset += batch_size; total_rows += len(rows);
\* result["rows_migrated"] = total_rows
CommitRound(t) ==
    /\ pc[t] = "commit"
    /\ \/ /\ target' = [target EXCEPT ![t].rows = @ \o pending[t]]
          /\ pending' = [pending EXCEPT ![t] = <<>>]
          /\ rounds' = [rounds EXCEPT ![t] = Append(@, Len(pending[t]))]
          /\ offset' = [offset EXCEPT ![t] = NextOffset(@, batch_size, Len(rows[t]))]
          /\ total_rows' = [total_rows EXCEPT ![t] = NextTotal(@, batch_size, Len(rows[t]))]
          /\ result' = [result EXCEPT ![t].rows_migrated =
                                         NextTotal(total_rows[t], batch_size, Len(rows[t]))]
          /\ pc' = [pc EXCEPT ![t] = "extract"]
          /\ raisedAt' = raisedAt
       \/ /\ Raise(t, "commit")
          /\ UNCHANGED <<target, pending, rounds, offset, total_rows>>
    /\ UNCHANGED <<inputVars, auxVars, shapeVars, source, mainVars, source_conn, target_conn, rows,
                   extracts, doneOrder>>

\* faulty variant of CloseIfSet: the close call is missing
CloseIfSet_Leak(conn) == conn

\* if '<name>' in locals(): <name>.close()
CloseIfSet(conn) == IF conn = "unset" THEN conn ELSE "closed"

\* finally: close the cursors and connections that were assigned (what is
\* pending on the target connection is rolled back); time_taken; return result
Finally(t) ==
    /\ pc[t] = "finally"
    /\ source_conn' = [source_conn EXCEPT ![t] = CloseIfSet(@)]
    /\ target_conn' = [target_conn EXCEPT ![t] = CloseIfSet(@)]
    /\ pending' = [pending EXCEPT ![t] = <<>>]
    /\ pc' = [pc EXCEPT ![t] = "done"]
    /\ doneOrder' = Append(doneOrder, t)
    /\ UNCHANGED <<inputVars, auxVars, shapeVars, source, target, mainVars, offset, total_rows, rows,
                   result, raisedAt, rounds, extracts>>

\* one step of the migrate_table call for table t
TaskStep(t) ==
    \/ ConnectSource(t) \/ ConnectTarget(t) \/ GetDDL(t) \/ DropTable(t)
    \/ CreateTable(t) \/ CommitDDL(t) \/ GetColumns(t)
    \/ Extract(t) \/ Insert(t) \/ CommitRound(t) \/ Finally(t)

\* ---------------------------------------------------------------- migrate_all_tables
\* faulty variant of ListExcept: `except Exception: pass`
ListExcept_Swallow(call) ==
    /\ list_error' = NoException
    /\ list_pc' = "finally"

\* except Exception as e: raise Exception(f"Error fetching tables: {e}");
\* the finally block runs before the new exception leaves get_tables
ListExcept(call) ==
    /\ list_error' = <<"Error fetching tables", call>>
    /\ list_pc' = "finally"

\* the database call `call` of get_tables raises
ListRaise(call) ==
    /\ list_raisedAt' = call
    /\ ListExcept(call)

\* tables = []; conn = connect(**conn_params); cursor = conn.cursor()
ListConnect ==
    /\ list_pc = "connect"
    /\ \/ /\ list_conn' = "open"
          /\ list_pc' = "query"
          /\ UNCHANGED <<list_error, list_raisedAt>>
       \/ /\ ListRaise("connect")
          /\ UNCHANGED list_conn
    /\ UNCHANGED <<inputVars, log, first_run, writeVars, dashVars, testVars, buttonVars, summaryVars, listed, dbVars, mainVars, taskVars>>

\* cursor.execute(SELECT TABLE_NAME ...); tables = [row[0] for row in fetchall()]
ListQuery ==
    /\ list_pc = "query"
    /\ \/ /\ listed' = tables
          /\ list_pc' = "finally"
          /\ UNCHANGED <<list_error, list_raisedAt>>
       \/ /\ ListRaise("query")
          /\ UNCHANGED listed
    /\ UNCHANGED <<inputVars, log, first_run, writeVars, dashVars, testVars, buttonVars, summaryVars, list_conn, dbVars, mainVars, taskVars>>

\* finally: close the cursor and the connection that were assigned; then
\* return tables, or let the exception of the except clause go to the caller
ListFinally ==
    /\ list_pc = "finally"
    /\ list_conn' = CloseIfSet(list_conn)
    /\ list_pc' = IF list_error = NoException THEN "returned" ELSE "raised"
    /\ UNCHANGED <<inputVars, log, first_run, writeVars, dashVars, testVars, buttonVars, summaryVars, listed, list_error,
                   list_raisedAt, dbVars,
                   mainVars, taskVars>>

\* one step of a get_tables call
ListStep == ListConnect \/ ListQuery \/ ListFinally

\* tables = get_tables(source_params): the list, or the exception it raises
GetTables ==
    /\ pcMain = "get_tables"
    /\ \/ /\ list_pc = "returned"
          /\ pcMain' = IF Len(listed) = 0 THEN "collect" ELSE "submit"
       \/ /\ list_pc = "raised"
          /\ pcMain' = "raised"
    /\ UNCHANGED <<inputVars, auxVars, dbVars, submitted, collected, results, taskVars>>

\* faulty variant of WorkerLimit: ThreadPoolExecutor() without the argument,
\* a thread for every table of the run
WorkerLimit_Default(mw) == MaxTables

\* ThreadPoolExecutor(max_workers=max_workers): the number of worker threads
WorkerLimit(mw) == mw

\* executor.submit(migrate_table, table, ...) for the next table of the list
Submit ==
    /\ pcMain = "submit"
    /\ submitted < Len(tables)
    /\ pc' = [pc EXCEPT ![tables[submitted + 1]] = "queued"]
    /\ submitted' = submitted + 1
    /\ pcMain' = IF submitted + 1 = Len(tables) THEN "collect" ELSE "submit"
    /\ UNCHANGED <<inputVars, auxVars, shapeVars, dbVars, collected, results, source_conn, target_conn,
                   offset, total_rows, rows, result, raisedAt, rounds, extracts,
                   doneOrder>>

\* the work item a free worker takes: the queue is first in, first out
QueueHead(t) ==
    \E i \in 1..submitted :
        /\ tables[i] = t
        /\ pc[t] = "queued"
        /\ \A j \in 1..(i - 1) : pc[tables[j]] # "queued"

\* a worker thread takes table t's work item and calls migrate_table
StartTask(t) ==
    /\ pcMain \in {"submit", "collect", "unwind"}
    /\ QueueHead(t)
    /\ Cardinality(Active) < WorkerLimit(max_workers)
    /\ Enter(t)
    /\ UNCHANGED <<inputVars, auxVars, shapeVars, dbVars, mainVars, source_conn, target_conn, offset,
                   total_rows, rows, raisedAt, rounds, extracts, doneOrder>>

\* faulty variant of NextFuture: as_completed(future_to_table), the futures
\* in the order they finished
NextFuture_Completed(i) ==
    IF Len(doneOrder) > i THEN doneOrder[i + 1] ELSE tables[i + 1]

\* for future in future_to_table: the dict iterates in insertion order, so
\* after i futures the next one waited on is that of table i + 1 of the list
NextFuture(i) == tables[i + 1]

\* faulty variant of AppendResult: only successful results are kept
AppendResult_SkipFailed(res, r) == IF r.success THEN Append(res, r) ELSE res

\* results.append(future.result())
AppendResult(res, r) == Append(res, r)

\* faulty variant of AfterResult: the run is abandoned at the first failure
AfterResult_FailFast(r) == IF r.success THEN "collect" ELSE "unwind"

\* the loop goes on to the next future whatever the result says
AfterResult(r) == "collect"

\* future.result() of the next future returns (or re-raises what the call raised)
Collect ==
    /\ pcMain = "collect"
    /\ collected < Len(tables)
    /\ LET t == NextFuture(collected) IN
         /\ Finished(t)
         /\ collected' = collected + 1
         /\ IF pc[t] = "raised"
            THEN /\ results' = results
                 /\ pcMain' = "unwind"
            ELSE /\ results' = AppendResult(results, result[t])
                 /\ pcMain' = AfterResult(result[t])
    /\ UNCHANGED <<inputVars, auxVars, dbVars, submitted, taskVars>>

\* leaving the with block waits for every submitted call (shutdown(wait=True)),
\* then return results, or the exception goes on to the caller
Exit ==
    /\ \/ pcMain = "collect" /\ collected = Len(tables)
       \/ pcMain = "unwind"
    /\ \A i \in 1..submitted : Finished(tables[i])
    /\ pcMain' = IF pcMain = "unwind" THEN "raised" ELSE "returned"
    /\ UNCHANGED <<inputVars, auxVars, dbVars, submitted, collected, results, taskVars>>

Next ==
    \/ ListStep
    \/ GetTables
    \/ Submit
    \/ \E t \in Tables : StartTask(t)
    \/ \E t \in Tables : TaskStep(t)
    \/ Collect
    \/ Exit

Spec == Init /\ [][Next]_vars

\* the steps of the thread that called migrate_all_tables
MainStep == ListStep \/ GetTables \/ Submit \/ Collect \/ Exit

\* the run under its scheduling: the calling thread goes on whenever it is
\* not blocked, an idle worker takes the next queued call, and every
\* database call of a running migration comes back (with a value or an
\* exception)
SpecLive ==
    /\ InitLive
    /\ [][Next]_vars
    /\ WF_vars(MainStep)
    /\ \A t \in Tables : WF_vars(StartTask(t) \/ TaskStep(t))

\* ---------------------------------------------------------------- test_connection
\* faulty variant of TestExcept: `except Exception: raise`
TestExcept_Propagate ==
    /\ test_escaped' = TRUE
    /\ test_result' = "none"
    /\ test_pc' = "returned"

\* except Exception: return False
TestExcept ==
    /\ test_escaped' = test_escaped
    /\ test_result' = "False"
    /\ test_pc' = "returned"

\* the database call `call` of test_connection raises
TestRaise(call) ==
    /\ test_raisedAt' = call
    /\ TestExcept

\* conn = snowflake.connector.connect(**conn_params); cursor = conn.cursor()
TestConnect ==
    /\ test_pc = "connect"
    /\ \/ /\ test_conn' = "open"
          /\ test_pc' = "execute"
          /\ UNCHANGED <<test_result, test_escaped, test_raisedAt>>
       \/ /\ TestRaise("connect")
          /\ UNCHANGED test_conn
    /\ UNCHANGED <<inputVars, log, first_run, writeVars, dashVars, listVars, buttonVars, summaryVars, dbVars, mainVars, taskVars>>

\* cursor.execute("SELECT 1"); when it raises, the except clause returns
\* without closing the connection
TestExecute ==
    /\ test_pc = "execute"
    /\ \/ /\ test_pc' = "close"
          /\ UNCHANGED <<test_result, test_escaped, test_raisedAt>>
       \/ TestRaise("execute")
    /\ UNCHANGED <<inputVars, log, first_run, writeVars, dashVars, listVars, buttonVars, summaryVars, test_conn, dbVars, mainVars,
                   taskVars>>

\* cursor.close(); conn.close(); return True
TestClose ==
    /\ test_pc = "close"
    /\ test_conn' = "closed"
    /\ test_result' = "True"
    /\ test_pc' = "returned"
    /\ UNCHANGED <<inputVars, log, first_run, writeVars, dashVars, listVars, buttonVars, summaryVars, test_escaped, test_raisedAt,
                   dbVars, mainVars, taskVars>>

\* one step of a test_connection call
TestStep == TestConnect \/ TestExecute \/ TestClose

\* ---------------------------------------------------------------- test buttons
\* if st.button("Test Source") / if st.button("Test Target"): the handler
\* calls test_connection with the parameters of the form
PressTest ==
    /\ handler_pc = "idle"
    /\ presses < MaxPresses
    /\ presses' = presses + 1
    /\ button' \in {"source", "target"}
    /\ handler_pc' = "testing"
    /\ test_pc' = "connect"
    /\ test_conn' = "unset"
    /\ test_result' = "none"
    /\ test_raisedAt' = NoError
    /\ UNCHANGED <<inputVars, log, first_run, writeVars, dashVars, listVars, summaryVars, test_escaped, source_tables,
                   notice,
                   dbVars, mainVars, taskVars>>

\* if test_connection(params): st.success(...), and for the source the call
\* of get_tables; else: st.error("Connection failed")
AfterTest ==
    /\ handler_pc = "testing"
    /\ test_pc = "returned"
    /\ test_pc' = "idle"
    /\ IF test_result = "True"
       THEN /\ notice' = "Connection successful!"
            /\ IF button = "source"
               THEN /\ handler_pc' = "listing"
                    /\ list_pc' = "connect"
                    /\ list_conn' = "unset"
                    /\ listed' = <<>>
                    /\ list_error' = NoException
                    /\ list_raisedAt' = NoError
               ELSE /\ handler_pc' = "idle"
                    /\ UNCHANGED listVars
       ELSE /\ notice' = "Connection failed"
            /\ handler_pc' = "idle"
            /\ UNCHANGED listVars
    /\ UNCHANGED <<inputVars, log, first_run, writeVars, dashVars, summaryVars, test_conn, test_result, test_escaped,
                   test_raisedAt, button, presses, source_tables, dbVars, mainVars,
                   taskVars>>

\* st.session_state.source_tables = get_tables(source_params); st.info(...);
\* except Exception as e: st.error(f"Error listing tables: {e}")
AfterList ==
    /\ handler_pc = "listing"
    /\ \/ /\ list_pc = "returned"
          /\ source_tables' = listed
          /\ notice' = "Found tables"
       \/ /\ list_pc = "raised"
          /\ source_tables' = source_tables
          /\ notice' = "Error listing tables"
    /\ handler_pc' = "idle"
    /\ list_pc' = "idle"
    /\ UNCHANGED <<inputVars, log, first_run, writeVars, dashVars, summaryVars, list_conn, listed, list_error,
                   list_raisedAt, testVars, button, presses, dbVars, mainVars, taskVars>>

\* the dashboard before a button is pressed: the source schema holds n tables
InitTest ==
    /\ \E n \in 0..MaxTables : tables = Iota(n)
    /\ max_workers = 1
    /\ batch_size = 1
    /\ source = [t \in Tables |-> <<>>]
    /\ target = [t \in Tables |-> NoTable]
    /\ FixedTexts
    /\ source_cols = [t \in Tables |-> Iota(1)]
    /\ pcMain = "dashboard"
    /\ results = <<>>
    /\ summary_pc = "idle"
    /\ source_tables = <<>>
    /\ list_pc = "idle"
    /\ pc = [t \in Tables |-> "unsubmitted"]
    /\ TaskInit

NextTest == PressTest \/ TestStep \/ AfterTest \/ ListStep \/ AfterList

SpecTest == InitTest /\ [][NextTest]_vars

\* ---------------------------------------------------------------- summary
\* sum(1 for r in results if r["success"])
RECURSIVE SuccessCount(_)
SuccessCount(rs) ==
    IF rs = <<>> THEN 0
    ELSE (IF Head(rs).success THEN 1 ELSE 0) + SuccessCount(Tail(rs))

\* faulty variant of TotalRows: sum(r["rows_migrated"] for r in results)
RECURSIVE TotalRows_All(_)
TotalRows_All(rs) ==
    IF rs = <<>> THEN 0
    ELSE Head(rs).rows_migrated + TotalRows_All(Tail(rs))

\* sum(r["rows_migrated"] for r in results if r["success"])
RECURSIVE TotalRows(_)
TotalRows(rs) ==
    IF rs = <<>> THEN 0
    ELSE (IF Head(rs).success THEN Head(rs).rows_migrated ELSE 0) + TotalRows(Tail(rs))

\* sum(r["time_taken"] for r in results); time_taken is round(..., 2) and is
\* counted in hundredths of a second, which the format :.2f shows exactly
RECURSIVE TotalTime(_)
TotalTime(rs) ==
    IF rs = <<>> THEN 0
    ELSE Head(rs).time_taken + TotalTime(Tail(rs))

\* the figures of the "Migration Summary" block
Summarise ==
    /\ summary_pc = "ready"
    /\ summary' = [success_count |-> SuccessCount(results),
                   failed |-> Len(results) - SuccessCount(results),
                   total_rows |-> TotalRows(results),
                   total_time |-> TotalTime(results)]
    /\ summary_pc' = "shown"
    /\ UNCHANGED <<inputVars, log, first_run, writeVars, dashVars, listVars, testVars, buttonVars, dbVars, mainVars,
                   taskVars>>

\* the results a migrate_table call can return, with its time_taken
SummaryResults ==
    {[table |-> 1, success |-> ok, rows_migrated |-> n,
      error |-> IF ok THEN NoError ELSE "failed", time_taken |-> d] :
        ok \in BOOLEAN, n \in 0..MaxSumRows, d \in 0..MaxTime}

\* the sequences of at most n elements of S
SeqsUpTo(S, n) == UNION {[1..k -> S] : k \in 0..n}

\* the summary lines applied to a completed sequence of results
InitSummary ==
    /\ tables = <<>>
    /\ max_workers = 1
    /\ batch_size = 1
    /\ source = [t \in Tables |-> <<>>]
    /\ target = [t \in Tables |-> NoTable]
    /\ FixedTexts
    /\ source_cols = [t \in Tables |-> Iota(1)]
    /\ pcMain = "summary"
    /\ results \in SeqsUpTo(SummaryResults, MaxResults)
    /\ summary_pc = "ready"
    /\ source_tables = <<>>
    /\ list_pc = "idle"
    /\ pc = [t \in Tables |-> "unsubmitted"]
    /\ TaskInit

SpecSummary == InitSummary /\ [][Summarise]_vars

\* ---------------------------------------------------------------- Start Migration
\* the lists st.multiselect can return: distinct options, in any order
Selections(options) ==
    {sel \in SeqsUpTo(Range(options), Len(options)) :
        \A i, j \in 1..Len(sel) : sel[i] = sel[j] => i = j}

\* faulty variant of MayCall: the calls are handed to worker threads and the
\* loop goes on without waiting for them
MayCall_Overlapping(dpc) == dpc \in {"loop", "calling"}

\* the loop calls migrate_table for the next table when the call before it
\* has returned
MayCall(dpc) == dpc = "loop"

\* if st.button("Start Migration", disabled=migration_in_progress): with no
\* table selected a warning; otherwise migration_in_progress = True and
\* results = []. The button is drawn only when source_tables is not empty.
StartMigration ==
    /\ dash_pc = "idle"
    /\ source_tables # <<>>
    /\ ~in_progress
    /\ \E sel \in Selections(source_tables) :
         /\ selected' = sel
         /\ IF sel = <<>>
            THEN /\ notice' = "Please select at least one table to migrate"
                 /\ dash_pc' = "warned"
                 /\ UNCHANGED in_progress
            ELSE /\ notice' = notice
                 /\ dash_pc' = "loop"
                 /\ in_progress' = TRUE
    /\ results' = <<>>
    /\ dash_i' = 0
    /\ UNCHANGED <<inputVars, log, first_run, writeVars, listVars, testVars, summaryVars,
                   handler_pc, button, presses, source_tables, migration_results,
                   dbVars, pcMain, submitted, collected, taskVars>>

\* for i, table in enumerate(selected_tables): result = migrate_table(table, ...)
DashCall ==
    /\ MayCall(dash_pc)
    /\ dash_i < Len(selected)
    /\ dash_i' = dash_i + 1
    /\ dash_pc' = "calling"
    /\ Enter(selected[dash_i + 1])
    /\ UNCHANGED <<inputVars, log, first_run, writeVars, listVars, testVars, buttonVars,
                   summaryVars, selected, in_progress, migration_results, shapeVars,
                   dbVars, mainVars, source_conn, target_conn, offset, total_rows,
                   rows, raisedAt, rounds, extracts, doneOrder>>

\* the call returns: results.append(result), the status line of the table,
\* the progress bar
DashReturn ==
    /\ dash_pc = "calling"
    /\ pc[selected[dash_i]] = "done"
    /\ results' = AppendResult(results, result[selected[dash_i]])
    /\ dash_pc' = "loop"
    /\ UNCHANGED <<inputVars, log, first_run, writeVars, listVars, testVars, buttonVars,
                   summaryVars, selected, dash_i, in_progress, migration_results,
                   dbVars, pcMain, submitted, collected, taskVars>>

\* after the loop: migration_results = results; migration_in_progress = False
DashFinish ==
    /\ dash_pc = "loop"
    /\ dash_i = Len(selected)
    /\ migration_results' = results
    /\ in_progress' = FALSE
    /\ dash_pc' = "done"
    /\ UNCHANGED <<inputVars, log, first_run, writeVars, listVars, testVars, buttonVars,
                   summaryVars, selected, dash_i, dbVars, mainVars, taskVars>>

\* the dashboard after Test Source has listed the n tables of the source
\* schema, with any value of the Concurrent Tables input
InitDash ==
    /\ \E n \in 0..MaxTables : tables = Iota(n)
    /\ max_workers \in 1..MaxWorkers
    /\ batch_size = MaxPoolRows
    /\ \E r \in 0..MaxPoolRows :
         source = [t \in Tables |-> IF t \in Range(tables) THEN Iota(r) ELSE <<>>]
    /\ target = [t \in Tables |-> NoTable]
    /\ FixedTexts
    /\ source_cols = [t \in Tables |-> Iota(1)]
    /\ pcMain = "dashboard"
    /\ results = <<>>
    /\ summary_pc = "idle"
    /\ source_tables = tables
    /\ list_pc = "idle"
    /\ pc = [t \in Tables |-> "unsubmitted"]
    /\ TaskInit

NextDash ==
    \/ StartMigration
    \/ DashCall
    \/ \E t \in Tables : TaskStep(t)
    \/ DashReturn
    \/ DashFinish

SpecDash == InitDash /\ [][NextDash]_vars

\* ---------------------------------------------------------------- direct call
\* result = migrate_table(table, source_params, target_params, batch_size)
CallMigrateTable ==
    /\ pcMain = "direct"
    /\ pc[1] = "unsubmitted"
    /\ Enter(1)
    /\ UNCHANGED <<inputVars, auxVars, shapeVars, dbVars, mainVars, source_conn, target_conn, offset,
                   total_rows, rows, raisedAt, rounds, extracts, doneOrder>>

\* the call returns its result to the caller, which appends it
ReturnToCaller ==
    /\ pcMain = "direct"
    /\ pc[1] = "done"
    /\ results' = AppendResult(results, result[1])
    /\ pcMain' = "returned"
    /\ UNCHANGED <<inputVars, auxVars, dbVars, submitted, collected, taskVars>>

\* migrate_table is called a second time for the same table, after the first
\* call returned: a new frame, whose locals are unassigned
CallAgain ==
    /\ pcMain = "returned"
    /\ pc[1] = "done"
    /\ Len(results) = 1
    /\ first_run' = target[1]
    /\ pcMain' = "direct"
    /\ Enter(1)
    /\ source_conn' = [source_conn EXCEPT ![1] = "unset"]
    /\ target_conn' = [target_conn EXCEPT ![1] = "unset"]
    /\ offset' = [offset EXCEPT ![1] = 0]
    /\ total_rows' = [total_rows EXCEPT ![1] = 0]
    /\ rows' = [rows EXCEPT ![1] = <<>>]
    /\ create_stmt' = [create_stmt EXCEPT ![1] = <<>>]
    /\ columns' = [columns EXCEPT ![1] = <<>>]
    /\ placed' = [placed EXCEPT ![1] = {}]
    /\ raisedAt' = [raisedAt EXCEPT ![1] = NoError]
    /\ rounds' = [rounds EXCEPT ![1] = <<>>]
    /\ extracts' = [extracts EXCEPT ![1] = <<>>]
    /\ fetched' = [fetched EXCEPT ![1] = <<>>]
    /\ UNCHANGED <<inputVars, log, listVars, testVars, buttonVars, summaryVars,
                   dashVars, writes, dbVars, submitted, collected, results, doneOrder>>

\* a row no call has seen before, written by another session
NewRow == 0 - (writes + 1)

\* sequence q with x put in front of its p-th element (at the end for p = Len(q) + 1)
InsertAt(q, p, x) == SubSeq(q, 1, p - 1) \o <<x>> \o SubSeq(q, p, Len(q))

\* sequence q without its p-th element
DeleteAt(q, p) == SubSeq(q, 1, p - 1) \o SubSeq(q, p + 1, Len(q))

\* another session may write to the source table while the call is between
\* two extract queries: the loop holds no lock on the table.  (A write at any
\* other moment of the loop commutes with the call's own steps up to the
\* next extract query.)
BetweenRounds == pc[1] = "extract" /\ extracts[1] # <<>> /\ writes < MaxWrites

\* another session inserts a row into the source table and commits; the scan
\* order of the table (no ORDER BY) may put the row anywhere
SourceInsert ==
    /\ BetweenRounds
    /\ \E p \in 1..(Len(source[1]) + 1) :
         source' = [source EXCEPT ![1] = InsertAt(@, p, NewRow)]
    /\ writes' = writes + 1
    /\ UNCHANGED <<inputVars, log, listVars, testVars, buttonVars, summaryVars, first_run,
                   dashVars, fetched, target, pending, mainVars, taskVars>>

\* another session deletes a row of the source table and commits
SourceDelete ==
    /\ BetweenRounds
    /\ \E p \in 1..Len(source[1]) :
         source' = [source EXCEPT ![1] = DeleteAt(@, p)]
    /\ writes' = writes + 1
    /\ UNCHANGED <<inputVars, log, listVars, testVars, buttonVars, summaryVars, first_run,
                   dashVars, fetched, target, pending, mainVars, taskVars>>

NextTable ==
    \/ CallMigrateTable
    \/ TaskStep(1)
    \/ ReturnToCaller

SpecTable == InitTable /\ [][NextTable]_vars

\* a direct call into an empty target schema with any batch_size the core
\* accepts, 0 included: migrate_table does not check the argument
InitBatch ==
    /\ tables = <<1>>
    /\ max_workers = 1
    /\ batch_size \in 0..MaxBatch
    /\ \E r \in 0..MaxRows :
         source = [t \in Tables |-> IF t = 1 THEN Iota(r) ELSE <<>>]
    /\ target = [t \in Tables |-> NoTable]
    /\ FixedTexts
    /\ source_cols = [t \in Tables |-> Iota(1)]
    /\ pcMain = "direct"
    /\ results = <<>>
    /\ summary_pc = "idle"
    /\ source_tables = <<>>
    /\ list_pc = "idle"
    /\ pc = [t \in Tables |-> "unsubmitted"]
    /\ TaskInit

\* the call runs in one thread and every database call comes back (with a
\* value or an exception), so the call goes on until it has returned
SpecBatch == InitBatch /\ [][NextTable]_vars /\ WF_vars(NextTable)

\* a direct call for a table with one column and no table at the target,
\* while other sessions write to the source table
NextWrites == NextTable \/ SourceInsert \/ SourceDelete

InitWrites ==
    /\ tables = <<1>>
    /\ max_workers = 1
    /\ batch_size \in 1..MaxWriteBatch
    /\ \E r \in 0..MaxWriteRows :
         source = [t \in Tables |-> IF t = 1 THEN Iota(r) ELSE <<>>]
    /\ target = [t \in Tables |-> NoTable]
    /\ FixedTexts
    /\ source_cols = [t \in Tables |-> Iota(1)]
    /\ pcMain = "direct"
    /\ results = <<>>
    /\ summary_pc = "idle"
    /\ source_tables = <<>>
    /\ list_pc = "idle"
    /\ pc = [t \in Tables |-> "unsubmitted"]
    /\ TaskInit

SpecWrites == InitWrites /\ [][NextWrites]_vars

\* two calls of migrate_table for the same table, one after the other
NextTwice == NextTable \/ CallAgain

SpecTwice == InitTable /\ [][NextTwice]_vars

\* a direct call for a table of one row whose definition is any text of
\* letters and dots, with a source schema whose qualifier can occur in the
\* text ("a.a") or cannot ("a.b")
InitDDL ==
    /\ tables = <<1>>
    /\ max_workers = 1
    /\ batch_size = 1
    /\ source = [t \in Tables |-> IF t = 1 THEN Iota(1) ELSE <<>>]
    /\ target = [t \in Tables |-> NoTable]
    /\ \E sch \in {<<"a">>, <<"b">>} :
         source_params = [database |-> <<"a">>, schema |-> sch]
    /\ target_params = TargetParams
    /\ \E text \in SeqsUpTo({"a", "."}, MaxDDL) :
         source_ddl = [t \in Tables |-> text]
    /\ source_cols = [t \in Tables |-> Iota(1)]
    /\ pcMain = "direct"
    /\ results = <<>>
    /\ summary_pc = "idle"
    /\ source_tables = <<>>
    /\ list_pc = "idle"
    /\ pc = [t \in Tables |-> "unsubmitted"]
    /\ TaskInit

SpecDDL == InitDDL /\ [][NextTable]_vars

\* ---------------------------------------------------------------- properties
\* tables named by the results, in output order
ResultTables == [i \in 1..Len(results) |-> results[i].table]

\* the run of migrate_all_tables is over after it submitted calls
RunOver == pcMain = "returned" \/ (pcMain = "raised" /\ submitted > 0)

\* the result the output holds for table t
HasResult(t, r) == \E i \in 1..Len(results) : results[i].table = t /\ results[i] = r

\* C1: when migrate_all_tables returns, the output holds exactly one result
\* per listed table: as many results as tables, the same set of names, no
\* name twice, whichever calls failed and whatever max_workers is.
C1_OneResultPerTable ==
    pcMain = "returned" =>
        /\ Len(results) = Len(tables)
        /\ Range(ResultTables) = Range(tables)
        /\ \A i, j \in 1..Len(results) :
              results[i].table = results[j].table => i = j

\* a run over two tables returned, one table failed and one succeeded
C1_Witness ==
    /\ pcMain = "returned"
    /\ Len(tables) >= 2
    /\ \E i, j \in 1..Len(results) : results[i].success /\ ~results[j].success

\* C2: fault isolation.  When table x's call fails at some database call and
\* no database call of another table y raises, y's call is neither cancelled
\* nor blocked (an active call can always take its next step) and the output
\* of the run holds y's result with success = TRUE.
C2_FaultIsolation ==
    /\ \A y \in Active : ENABLED TaskStep(y)
    /\ RunOver =>
         \A y \in Range(tables) :
            raisedAt[y] = NoError =>
               /\ pc[y] = "done"
               /\ \E i \in 1..Len(results) :
                     results[i].table = y /\ results[i].success

\* table x failed before table y, submitted after it, succeeded
C2_Witness ==
    /\ pcMain = "returned"
    /\ \E x, y \in Range(tables) :
          /\ x < y
          /\ raisedAt[x] = "insert"
          /\ raisedAt[y] = NoError
          /\ HasResult(x, result[x]) /\ ~result[x].success
          /\ HasResult(y, result[y]) /\ result[y].success

\* C3: collect, don't abort.  No exception leaves migrate_table; a database
\* call that raises ends the call with success = FALSE and error = the text
\* of what was raised; migrate_all_tables raises only when get_tables does,
\* and otherwise returns the result of every table.
C3_CollectDontAbort ==
    /\ \A t \in Tables : pc[t] # "raised"
    /\ pcMain # "unwind"
    /\ pcMain = "raised" => submitted = 0
    /\ \A t \in Tables :
          (pc[t] = "done" /\ raisedAt[t] # NoError) =>
              /\ result[t].success = FALSE
              /\ result[t].error = raisedAt[t]
    /\ pcMain = "returned" => \A t \in Range(tables) : HasResult(t, result[t])

\* every table of a run failed, each at a different call, and the run returned
C3_Witness ==
    /\ pcMain = "returned"
    /\ Len(tables) >= 2
    /\ \A t \in Range(tables) : raisedAt[t] # NoError
    /\ raisedAt[1] = "commit"
    /\ raisedAt[2] = "connect_target"
    /\ HasResult(1, result[1]) /\ result[1].error = "commit"

\* C4: concurrency bound.  The calls of migrate_table that have started and
\* not returned are never more than max_workers.
C4_ConcurrencyBound == Cardinality(Active) <= max_workers

\* max_workers calls are active while another table waits in the queue
C4_Witness ==
    /\ Cardinality(Active) = max_workers
    /\ \E t \in Tables : pc[t] = "queued"

\* ceil(r / b)
Ceil(r, b) == (r + b - 1) \div b

RECURSIVE SumSeq(_)
SumSeq(q) == IF q = <<>> THEN 0 ELSE q[1] + SumSeq(Tail(q))

\* the direct call of migrate_table has returned
Returned == pc[1] = "done"

\* C5: round-trip row count.  The source table is not written during the
\* call; a call that ends with success = TRUE reports rows_migrated = R and
\* leaves the target table existing with exactly R rows, for every R >= 0
\* and batch size >= 1, whatever the target held before.
C5_RoundTripRowCount ==
    (Returned /\ result[1].success) =>
        /\ result[1].rows_migrated = Len(source[1])
        /\ target[1].exists
        /\ Len(target[1].rows) = Len(source[1])

\* a table of at least three rows was copied in batches of two
C5_Witness ==
    /\ Returned /\ result[1].success
    /\ batch_size = 2
    /\ Len(source[1]) >= 3
    /\ Len(source[1]) % batch_size # 0
    /\ Len(target[1].rows) = Len(source[1])

\* C6: batch boundary.  With no failure, a table of R rows copied with batch
\* size B takes exactly ceil(R / B) insert+commit rounds, each of B rows but
\* the last, which has R mod B rows (B when B divides R); the copy stops at
\* the first extract that returns no rows, which is extract ceil(R / B) + 1;
\* R = 0 gives the single empty extract and rows_migrated = 0.
C6_BatchBoundary ==
    (Returned /\ result[1].success) =>
        LET R == Len(source[1])
            B == batch_size
            n == Ceil(R, B)
        IN  /\ Len(rounds[1]) = n
            /\ \A i \in 1..n :
                  rounds[1][i] = IF i < n THEN B
                                 ELSE IF R % B = 0 THEN B ELSE R % B
            /\ Len(extracts[1]) = n + 1
            /\ rows[1] = <<>>
            /\ R = 0 => (Len(extracts[1]) = 1 /\ result[1].rows_migrated = 0)

\* R = 5, B = 2: rounds of 2, 2 and 1 rows
C6_Witness ==
    /\ Returned /\ result[1].success
    /\ Len(source[1]) = 5
    /\ batch_size = 2
    /\ rounds[1] = <<2, 2, 1>>
    /\ Len(extracts[1]) = 4

C8_ConnectionRelease ==
    Returned =>
        /\ source_conn[1] # "open"
        /\ target_conn[1] # "open"
        /\ source_conn[1] = IF raisedAt[1] = "connect_source" THEN "unset" ELSE "closed"
        /\ target_conn[1] = IF raisedAt[1] \in {"connect_source", "connect_target"}
                            THEN "unset" ELSE "closed"

\* opening the second connection failed and the first one was closed
C8_Witness ==
    /\ Returned
    /\ raisedAt[1] = "connect_target"
    /\ source_conn[1] = "closed"
    /\ target_conn[1] = "unset"

\* C9 as stated: the output of migrate_all_tables lists the results in the
\* order in which the calls completed.
C9_CompletionOrder ==
    pcMain = "returned" => ResultTables = doneOrder

\* C9 amended: the output of migrate_all_tables lists the results in
\* submission order, the order of the table list, also when the calls
\* completed in another order.
C9_SubmissionOrder ==
    pcMain = "returned" => ResultTables = tables

\* table 2 completed before table 1 and the run returned
C9_Witness ==
    /\ pcMain = "returned"
    /\ Len(doneOrder) >= 2
    /\ doneOrder[1] = 2
    /\ doneOrder[2] = 1
    /\ results[1].table = 1

\* C10: within one call the extracts are issued at offsets 0, B, 2B, ...;
\* when the extract of round N+1 is issued the insert and the commit of
\* round N are complete (nothing is pending); at most one batch is ever
\* pending on the target table, and only between its insert and its commit
\* or, when the commit raised, until the connection is closed.
C10_RoundOrder ==
    /\ extracts[1] = [i \in 1..Len(extracts[1]) |-> (i - 1) * batch_size]
    /\ Len(extracts[1]) - Len(rounds[1]) \in {0, 1}
    /\ pc[1] = "extract" =>
          /\ pending[1] = <<>>
          /\ Len(rounds[1]) = Len(extracts[1])
    /\ Len(pending[1]) <= batch_size
    /\ pending[1] # <<>> => pc[1] \in {"commit", "finally"}

\* three rounds are committed and the fourth extract is about to be issued
C10_Witness ==
    /\ pc[1] = "extract"
    /\ batch_size = 2
    /\ extracts[1] = <<0, 2, 4>>
    /\ rounds[1] = <<2, 2, 1>>

\* C20: column alignment. The column list is read once, before the first
\* round, and never changes during the rounds; every insert stores in target
\* column c the values that were read from source column c, in whatever
\* order the catalog returned the columns.
C20_ColumnAlignment ==
    /\ \A pr \in placed[1] : pr[1] = pr[2]
    /\ pc[1] \in {"extract", "insert", "commit"} =>
          /\ Len(columns[1]) = Len(source_cols[1])
          /\ Range(columns[1]) = Range(source_cols[1])
    /\ rounds[1] # <<>> => placed[1] = {<<c, c>> : c \in Range(source_cols[1])}

\* two rounds were inserted with a column list that is not in table order
C20_Witness ==
    /\ Len(rounds[1]) >= 2
    /\ columns[1] = <<2, 1>>
    /\ placed[1] = {<<1, 1>>, <<2, 2>>}

\* connections of migrate_table calls that are open
OpenConns ==
    Cardinality({t \in Tables : source_conn[t] = "open"}) +
    Cardinality({t \in Tables : target_conn[t] = "open"})

\* C19: connection ownership. A connection is open only while the call that
\* opened it is running, each running call holds at most its own source and
\* its own target connection, and so at most 2 * max_workers task
\* connections are open at any time of a migrate_all_tables run.
C19_ConnectionOwnership ==
    /\ \A t \in Tables :
          (source_conn[t] = "open" \/ target_conn[t] = "open") => t \in Active
    /\ OpenConns <= 2 * max_workers

\* every worker holds both of its connections while another table waits
C19_Witness ==
    /\ OpenConns = 2 * max_workers
    /\ \E t \in Tables : pc[t] = "queued"

\* C13: no retry. Once a database call of table t's migration has raised,
\* the call only goes on to its finally block and returns: it executes no
\* further connect, DDL fetch, DROP, CREATE, extract, insert or commit, and
\* changes nothing at the target. A call that returned never runs again, a
\* call begins only for a table waiting in the executor's queue, and no
\* table is put back into the queue.
C13_NoRetry ==
    [][\A t \in Tables :
         /\ raisedAt[t] # NoError =>
               /\ pc[t] \in {"finally", "done"}
               /\ pc'[t] \in {"finally", "done"}
               /\ raisedAt'[t] = raisedAt[t]
               /\ target'[t] = target[t]
               /\ extracts'[t] = extracts[t]
               /\ rounds'[t] = rounds[t]
               /\ result'[t] = result[t]
         /\ pc[t] = "done" => pc'[t] = "done"
         /\ (pc'[t] = "connect_source" /\ pc[t] # "connect_source") => pc[t] = "queued"
         /\ (pc'[t] = "queued" /\ pc[t] # "queued") => pc[t] = "unsubmitted"
      ]_vars

\* the run returned with the result of a table whose extract raised after a
\* committed round, and with the result of a table that was migrated
C13_Witness ==
    /\ pcMain = "returned"
    /\ \E t \in Tables :
          /\ raisedAt[t] = "extract"
          /\ Len(extracts[t]) = 2
          /\ HasResult(t, result[t])
    /\ \E t \in Tables : result[t].success

\* C12: migrate_all_tables returns only after every submitted call of
\* migrate_table has returned (no worker is still running one and no call is
\* left in the queue), and when every database call comes back the run
\* ends: migrate_all_tables hands control back to its caller, and once the
\* tables are listed it does so by returning the result list.
C12_ReturnsAfterAll ==
    /\ [](pcMain = "returned" =>
            /\ Active = {}
            /\ \A t \in Range(tables) : pc[t] = "done" /\ HasResult(t, result[t]))
    /\ <>(pcMain \in {"returned", "raised"})
    /\ [](pcMain \in {"submit", "collect"} => <>(pcMain = "returned"))

\* the run returned after two tables were migrated by one worker
C12_Witness ==
    /\ pcMain = "returned"
    /\ Len(tables) = 2
    /\ max_workers = 1
    /\ \A t \in Range(tables) : result[t].success
    /\ result[1].rows_migrated = 1
    /\ doneOrder = <<1, 2>>

\* get_tables has handed control back to its caller
ListOver == list_pc \in {"returned", "raised"}

\* C15: get_tables surfaces a failure. When its connect or its catalog query
\* raises, get_tables does not return a list (neither an empty nor a
\* partial one) but raises an error that names the listing and carries the
\* cause; whenever it is over, the connection it opened is closed; it
\* returns only the complete listing; and migrate_all_tables then raises
\* too, with no table submitted, no migration started and no result.
C15_ListFailureSurfaces ==
    /\ (ListOver /\ list_raisedAt # NoError) =>
          /\ list_pc = "raised"
          /\ list_error = <<"Error fetching tables", list_raisedAt>>
          /\ listed = <<>>
    /\ ListOver => list_conn = (IF list_raisedAt = "connect" THEN "unset" ELSE "closed")
    /\ list_pc = "returned" => (listed = tables /\ list_raisedAt = NoError)
    /\ list_pc = "raised" =>
          /\ pcMain \in {"get_tables", "raised"}
          /\ submitted = 0
          /\ results = <<>>
          /\ \A t \in Tables : pc[t] = "unsubmitted" /\ ~ENABLED StartTask(t)
    /\ pcMain = "raised" => list_pc = "raised"

\* the catalog query failed on an open connection, with two tables to list,
\* and migrate_all_tables raised
C15_Witness ==
    /\ pcMain = "raised"
    /\ list_raisedAt = "query"
    /\ list_conn = "closed"
    /\ Len(tables) = 2

\* C14: test_connection never raises to its caller. Whatever the connect and
\* the SELECT 1 do, no exception leaves the call; when it has returned, it
\* returned True if both succeeded (and then it closed its connection) and
\* False if one of them raised; the button handler reports accordingly.
C14_TestNeverRaises ==
    /\ ~test_escaped
    /\ test_pc = "returned" =>
          /\ test_result \in {"True", "False"}
          /\ test_result = "True" <=> test_raisedAt = NoError
          /\ test_result = "True" => test_conn = "closed"
    /\ test_pc = "idle" => test_result = (IF presses = 0 THEN "none"
                                          ELSE IF test_raisedAt = NoError THEN "True"
                                          ELSE "False")

\* a test that returned True, then a test whose SELECT 1 raised on an open
\* connection and that returned False
C14_Witness ==
    /\ presses = 2
    /\ notice = "Connection successful!"
    /\ test_pc = "returned"
    /\ test_raisedAt = "execute"
    /\ test_result = "False"
    /\ test_conn = "open"

\* C16: the summary. For every sequence of results, the empty one included,
\* the success count and the failure count add up to the number of results,
\* the total of rows counts the rows_migrated of the successful results
\* only, and the total time counts the time_taken of all results; the
\* summary of no results is all zeros.
C16_Summary ==
    summary_pc = "shown" =>
        LET ok == {i \in 1..Len(results) : results[i].success}
            rowsOf(i) == IF i \in ok THEN results[i].rows_migrated ELSE 0
        IN /\ summary.success_count = Cardinality(ok)
           /\ summary.success_count + summary.failed = Len(results)
           /\ summary.failed >= 0
           /\ summary.total_rows = SumSeq([i \in 1..Len(results) |-> rowsOf(i)])
           /\ summary.total_time = SumSeq([i \in 1..Len(results) |-> results[i].time_taken])
           /\ results = <<>> => summary = NoSummary

\* the summary of a successful result and of a failed one that committed rows
C16_Witness ==
    /\ summary_pc = "shown"
    /\ Len(results) = 2
    /\ results[1].success /\ results[1].rows_migrated = 2
    /\ ~results[2].success /\ results[2].rows_migrated = 1
    /\ results[2].time_taken = 1
    /\ summary = [success_count |-> 1, failed |-> 1, total_rows |-> 2,
                  total_time |-> results[1].time_taken + 1]

\* positions at which q occurs in the text s
Occurrences(s, q) ==
    {i \in 1..(Len(s) - Len(q) + 1) : SubSeq(s, i, i + Len(q) - 1) = q}

\* the text s with new in place of the Len(q) characters at each position of I
RECURSIVE Substituted(_, _, _, _, _)
Substituted(s, q, new, I, k) ==
    IF k > Len(s) THEN <<>>
    ELSE IF k \in I
         THEN new \o Substituted(s, q, new, I, k + Len(q))
         ELSE <<s[k]>> \o Substituted(s, q, new, I, k + 1)

\* dist < n
Near(i, j, n) == i - j < n /\ j - i < n

\* C17: translation. The statement that created the target table is the
\* fetched definition in which occurrences of the source qualifier, no two
\* of them overlapping, were replaced by the target qualifier and every
\* other character was kept; no occurrence of the source qualifier in the
\* fetched definition was left standing clear of the replaced ones (where no
\* two occurrences overlap, every one of them was replaced).
C17_Translation ==
    target[1].exists =>
        LET s == source_ddl[1]
            q == Qualifier(source_params)
            new == Qualifier(target_params)
        IN /\ target[1].ddl = create_stmt[1]
           /\ \E I \in SUBSET Occurrences(s, q) :
                 /\ \A i, j \in I : i # j => ~Near(i, j, Len(q))
                 /\ \A o \in Occurrences(s, q) : \E i \in I : Near(o, i, Len(q))
                 /\ target[1].ddl = Substituted(s, q, new, I, 1)

\* the definition "a.aa.a" holds the qualifier "a.a" twice and the table
\* was created from "b.ab.a"
C17_Witness ==
    /\ target[1].exists
    /\ source_ddl[1] = <<"a", ".", "a", "a", ".", "a">>
    /\ Qualifier(source_params) = <<"a", ".", "a">>
    /\ target[1].ddl = <<"b", ".", "a", "b", ".", "a">>
    /\ result[1].success

\* C18: no-op translation. When the fetched definition does not contain the
\* source qualifier, the translation signals NoOpTranslation; the call does
\* not fail for that reason and the table is created from the unmodified
\* definition.
C18_NoOpSignalled ==
    (target[1].exists /\ Occurrences(source_ddl[1], Qualifier(source_params)) = {}) =>
        /\ target[1].ddl = source_ddl[1]
        /\ "NoOpTranslation" \in Range(log)

\* C11: idempotence of shape. When migrate_table ran twice in succession on
\* the same unchanged source table and both calls succeeded, the target
\* table has after the second call the definition it had after the first,
\* and it holds exactly the rows of the source, once: the second call
\* reports R rows and the table holds R rows, not 2R.
C11_ShapeIdempotent ==
    (pcMain = "returned" /\ Len(results) = 2
       /\ results[1].success /\ results[2].success) =>
        /\ first_run.exists /\ target[1].exists
        /\ target[1].ddl = first_run.ddl
        /\ first_run.rows = source[1]
        /\ target[1].rows = source[1]
        /\ results[2].rows_migrated = Len(source[1])

\* both calls copied the five rows in batches of two over an old table
C11_Witness ==
    /\ pcMain = "returned"
    /\ Len(results) = 2
    /\ results[1].success /\ results[2].success
    /\ batch_size = 2
    /\ first_run.rows = Iota(5)
    /\ target[1].rows = Iota(5)
    /\ rounds[1] = <<2, 2, 1>>

\* C22: result consistency. The result a call of migrate_table returns has
\* success = True exactly when its error is None: a failed result carries
\* the text of the exception and a successful one carries none; and while
\* the call runs, rows_migrated never decreases.
C22_ResultConsistency ==
    /\ [](Returned =>
            /\ result[1].success <=> result[1].error = NoError
            /\ result[1].success <=> raisedAt[1] = NoError
            /\ ~result[1].success => result[1].error = raisedAt[1])
    /\ [][result'[1].rows_migrated >= result[1].rows_migrated]_vars

\* the call returned a failed result with its error after two committed
\* rounds
C22_Witness ==
    /\ Returned
    /\ ~result[1].success
    /\ result[1].error = "insert"
    /\ result[1].rows_migrated = 4
    /\ Len(rounds[1]) = 2

\* the calls of migrate_table before its first statement against the target
EarlySteps == {"connect_source", "connect_target", "get_ddl"}

\* C23: target untouched on early failure. Until both connections are open
\* and the definition is fetched, and for good when one of these three calls
\* raised, no step of migrate_table changes the target table or leaves
\* anything pending on it: a table that existed there keeps its definition
\* and its rows. The DROP is reached only with both connections open and
\* the translated definition at hand.
C23_EarlyFailureFrame ==
    /\ [][(pc[1] \in EarlySteps \cup {"unsubmitted"} \/ raisedAt[1] \in EarlySteps) =>
             (target' = target /\ pending' = pending)]_vars
    /\ [](raisedAt[1] \in EarlySteps =>
             /\ target[1] \in OldTargets
             /\ pending[1] = <<>>
             /\ rounds[1] = <<>> /\ extracts[1] = <<>>)
    /\ [](pc[1] = "drop" =>
             /\ source_conn[1] = "open" /\ target_conn[1] = "open"
             /\ create_stmt[1] = StrReplace(source_ddl[1], Qualifier(source_params),
                                            Qualifier(target_params)))

\* the fetch of the definition raised with both connections open, the call
\* returned, and the old table is still there with its row
C23_Witness ==
    /\ Returned
    /\ raisedAt[1] = "get_ddl"
    /\ source_conn[1] = "closed" /\ target_conn[1] = "closed"
    /\ target[1] = [exists |-> TRUE, rows |-> <<OldRow>>, ddl |-> OldDDL]

\* C24: drop without recreate. When the CREATE statement raises, after the
\* DROP TABLE IF EXISTS was executed, migrate_table returns success = False
\* with rows_migrated = 0 and its error, and the target table is gone: the
\* table that was there before the call is neither restored nor recreated.
C24_DropWithoutRecreate ==
    (Returned /\ raisedAt[1] = "create") =>
        /\ ~result[1].success
        /\ result[1].rows_migrated = 0
        /\ result[1].error = "create"
        /\ target[1] = NoTable
        /\ rounds[1] = <<>>

\* a first call copied five rows; the CREATE of the second call raised and
\* the table of the first call is gone
C24_Witness ==
    /\ Returned
    /\ Len(results) = 1
    /\ first_run.exists
    /\ first_run.rows = Iota(5)
    /\ raisedAt[1] = "create"
    /\ ~target[1].exists
    /\ ~result[1].success

\* C25: batch_size is not validated by migrate_table. For every
\* batch_size >= 1 the copy loop ends after finitely many rounds, at most
\* ceil(R / batch_size) of them, and the call returns. With batch_size = 0
\* the first extract returns no rows: when no database call raises, the call
\* returns success = True and rows_migrated = 0 after a single extract and
\* no insert, with an empty target table, however many rows the source holds.
C25_BatchSizeNotValidated ==
    /\ <>(pcMain = "returned")
    /\ [](batch_size >= 1 =>
            /\ Len(rounds[1]) <= Ceil(Len(source[1]), batch_size)
            /\ Len(extracts[1]) <= Ceil(Len(source[1]), batch_size) + 1)
    /\ []((batch_size = 0 /\ Returned /\ raisedAt[1] = NoError) =>
            /\ result[1].success
            /\ result[1].rows_migrated = 0
            /\ extracts[1] = <<0>>
            /\ rounds[1] = <<>>
            /\ placed[1] = {}
            /\ target[1].exists /\ target[1].rows = <<>>)

\* batch_size = 0 and a source of five rows: success with no row copied
C25_Witness ==
    /\ pcMain = "returned"
    /\ batch_size = 0
    /\ Len(source[1]) = 5
    /\ results = <<[table |-> 1, success |-> TRUE, rows_migrated |-> 0, error |-> NoError]>>
    /\ target[1].rows = <<>>

Window(tbl, n) ==
    LET lo == (n - 1) * batch_size + 1
        hi == Min(n * batch_size, Len(tbl))
    IN  [k \in 1..(IF hi >= lo THEN hi - lo + 1 ELSE 0) |-> tbl[lo + k - 1]]

\* the windows of the first n rounds, each taken from the source table as it
\* was at that round's extract query, one after the other
RECURSIVE Windows(_)
Windows(n) == IF n = 0 THEN <<>> ELSE Windows(n - 1) \o Window(fetched[1][n], n)

\* number of positions of sequence q that hold x
Copies(q, x) == Cardinality({k \in 1..Len(q) : q[k] = x})

\* row x was in the source table at every extract query of the call and is
\* there still
PresentThroughout(x) ==
    /\ x \in Range(source[1])
    /\ \A n \in 1..Len(fetched[1]) : x \in Range(fetched[1][n])

\* C21: concurrent source writes.  Other sessions insert and delete rows of
\* the source table between the extract queries of a call.  The n-th extract
\* query still starts at offset (n-1)*batch_size, whatever was written, and
\* reads the table as it is at that moment; the target holds exactly the
\* windows read in the committed rounds; a call that met no exception
\* returns success = TRUE with rows_migrated = the target's row count, and
\* nothing compares the target with the source.  Only a call during which
\* nothing was written is sure to leave the target equal to the source.
\* (The witness is a successful call whose target lacks a row that was in
\* the source throughout and holds another row twice.)
C21_ConcurrentSourceWrites ==
    /\ \A n \in 1..Len(extracts[1]) : extracts[1][n] = (n - 1) * batch_size
    /\ Len(rounds[1]) <= Len(fetched[1])
    /\ target[1].rows = Windows(Len(rounds[1]))
    /\ (Returned /\ raisedAt[1] = NoError)
          => /\ result[1].success
             /\ result[1].error = NoError
             /\ result[1].rows_migrated = Len(target[1].rows)
    /\ (Returned /\ result[1].success /\ writes = 0)
          => target[1].rows = source[1]

C21_ConcurrentSourceWrites_Witness ==
    /\ Returned
    /\ result[1].success
    /\ writes > 0
    /\ target[1].rows # source[1]
    /\ \E x \in Range(source[1]) :
         PresentThroughout(x) /\ Copies(target[1].rows, x) = 0
    /\ \E y \in Range(target[1].rows) : Copies(target[1].rows, y) = 2

====
